---------------------------- MODULE Spec2Model ----------------------------
(***************************************************************************)
(* Model of the asynchronous generation-and-execution pipeline of          *)
(* blender-llm-addin-V2.py: background workers, the code sanitization      *)
(* gate (preprocess_code), the execution queue drained by                  *)
(* process_queue_timer on the host's main thread, and the status/response  *)
(* sink (update_log / update_response).                                    *)
(*                                                                         *)
(* Texts are sequences of tokens.  Each token stands for a fixed piece of  *)
(* text:                                                                   *)
(*   "F"    ```                    "FPY"  ```python      "FP"   ```py      *)
(*   "NL"   newline                "SP"   one space      "TAB"  a tab      *)
(*   "BPY"  bpy.ops.mesh.primitive_cube_add()   (valid, has 'bpy.')        *)
(*   "X"    x = 1                               (valid, no API marker)     *)
(*   "BAD"  x = )                               (never parses)             *)
(*   "IMPS" import socket                       (valid, denylist pattern)  *)
(*   "IMPC" import os, socket     (valid, imports socket, but the text     *)
(*                                 has neither 'import socket' nor         *)
(*                                 'from socket')                          *)
(*   "ERR"  Error: <message>       the adapters' error-tagged text         *)
(***************************************************************************)
EXTENDS Naturals, Sequences, FiniteSets, TLC

\* ------------------------------------------------------------------ bounds
MaxRequests == 2

\* longest text, in tokens, given to preprocess_code on its own
MaxLen == 5

\* how many objects beyond describe_scene's cut a scene may hold
MaxExtra == 2

\* longest model id, in parts, given to llm_agent on its own
MaxIdLen == 3

\* ---------------------------------------------------------- text helpers
Whitespace == {"SP", "TAB", "NL"}

\* tokens whose text contains three backticks (the regex's closing ```)
HasBackticks(tok) == tok \in {"F", "FPY", "FP"}

\* a marker test that finds no API call
HasApiMarkerNever(tok) == FALSE

\* 'import bpy' in text or 'bpy.' in text, per token
HasApiMarker(tok) == tok = "BPY"

\* f"import {lib}" in code or f"from {lib}" in code, per token
HasDenyPattern(tok) == tok = "IMPS"

\* the statement really imports a module of unsafe_libs
ImportsUnsafeLib(tok) == tok \in {"IMPS", "IMPC"}

\* a statement that ast.parse accepts on a line of its own
ValidStatement(tok) == tok \in {"BPY", "X", "IMPS", "IMPC"}

RECURSIVE LStrip(_)
LStrip(s) ==
    IF s = <<>> THEN <<>>
    ELSE IF Head(s) \in Whitespace THEN LStrip(Tail(s)) ELSE s

RECURSIVE RStrip(_)
RStrip(s) ==
    IF s = <<>> THEN <<>>
    ELSE IF s[Len(s)] \in Whitespace THEN RStrip(SubSeq(s, 1, Len(s) - 1)) ELSE s

\* str.strip()
Strip(s) == RStrip(LStrip(s))

\* code.replace('\t', '    ')
RECURSIVE ReplaceTabs(_)
ReplaceTabs(s) ==
    IF s = <<>> THEN <<>>
    ELSE IF Head(s) = "TAB"
         THEN <<"SP", "SP", "SP", "SP">> \o ReplaceTabs(Tail(s))
         ELSE <<Head(s)>> \o ReplaceTabs(Tail(s))

\* s.split('\n')
RECURSIVE SplitLines(_)
SplitLines(s) ==
    IF \A i \in 1..Len(s) : s[i] # "NL" THEN <<s>>
    ELSE LET k == CHOOSE i \in 1..Len(s) :
                      s[i] = "NL" /\ \A j \in 1..(i - 1) : s[j] # "NL"
         IN  <<SubSeq(s, 1, k - 1)>> \o SplitLines(SubSeq(s, k + 1, Len(s)))

\* '\n'.join(lines)
RECURSIVE JoinLines(_)
JoinLines(ls) ==
    IF ls = <<>> THEN <<>>
    ELSE IF Len(ls) = 1 THEN ls[1]
    ELSE ls[1] \o <<"NL">> \o JoinLines(Tail(ls))

IsBlankLine(l) == \A i \in 1..Len(l) : l[i] \in {"SP", "TAB"}

\* number of leading whitespace tokens of a line
RECURSIVE Indent(_)
Indent(l) ==
    IF l = <<>> THEN 0
    ELSE IF Head(l) \in {"SP", "TAB"} THEN 1 + Indent(Tail(l)) ELSE 0

Min(S) == CHOOSE x \in S : \A y \in S : x <= y

\* textwrap.dedent: whitespace-only lines are emptied, the longest common
\* leading whitespace of the other lines is removed (after ReplaceTabs the
\* leading whitespace is spaces only, so the common prefix is a count)
Dedent(s) ==
    LET ls     == SplitLines(s)
        full   == {i \in 1..Len(ls) : ~IsBlankLine(ls[i])}
        margin == IF full = {} THEN 0 ELSE Min({Indent(ls[i]) : i \in full})
        cut(l) == IF IsBlankLine(l) THEN <<>> ELSE SubSeq(l, margin + 1, Len(l))
    IN  JoinLines([i \in 1..Len(ls) |-> cut(ls[i])])

\* ast.parse on a text of this alphabet: every line is blank, or is one
\* valid statement at column 0 followed by spaces only
LineParses(l) ==
    \/ IsBlankLine(l)
    \/ /\ ValidStatement(Head(l))
       /\ IsBlankLine(Tail(l))

ParsesOk(s) == LET ls == SplitLines(s) IN \A i \in 1..Len(ls) : LineParses(ls[i])

\* the sentinel for "re.search found nothing"
NoMatch == <<"<no match>">>

\* re.search(open + r'\n(.*?)```', text, re.DOTALL): leftmost opening fence
\* followed by a newline for which a later ``` exists, then the shortest
\* group up to the next ```
FenceSearch(open, text) ==
    LET n        == Len(text)
        close(i) == {j \in (i + 2)..n : HasBackticks(text[j])}
        starts   == {i \in 1..n : /\ i + 1 <= n
                                  /\ text[i] = open
                                  /\ text[i + 1] = "NL"
                                  /\ close(i) # {}}
    IN  IF starts = {} THEN NoMatch
        ELSE LET i == Min(starts)
                 j == Min(close(i))
             IN  SubSeq(text, i + 2, j - 1)

\* the for-loop over the three patterns: first pattern that matches wins,
\* and its group is stripped
ExtractFenced(text) ==
    IF FenceSearch("FPY", text) # NoMatch THEN Strip(FenceSearch("FPY", text))
    ELSE IF FenceSearch("FP", text) # NoMatch THEN Strip(FenceSearch("FP", text))
    ELSE IF FenceSearch("F", text) # NoMatch THEN Strip(FenceSearch("F", text))
    ELSE <<>>

ContainsApiMarker(text) == \E i \in 1..Len(text) : HasApiMarker(text[i])

ContainsDenyPattern(code) == \E i \in 1..Len(code) : HasDenyPattern(code[i])

\* preprocess_code: the empty sequence is the '' it returns on rejection
preprocess_code(text) ==
    LET fenced == ExtractFenced(text)
        code   == IF fenced # <<>> THEN fenced
                  ELSE IF ContainsApiMarker(text) THEN Strip(text)
                  ELSE <<>>
        norm   == Dedent(ReplaceTabs(code))
    IN  IF code = <<>> THEN <<>>
        ELSE IF ContainsDenyPattern(norm) THEN <<>>
        ELSE IF ~ParsesOk(norm) THEN <<>>
        ELSE norm


\* ------------------------------------------------------- host scene model
\* describe_scene's cut: list(bpy.context.scene.objects)[:50]
SceneCap == 50

ObjectTypes == {"MESH", "LIGHT", "CAMERA", "EMPTY"}

\* an object one of whose fields raises while its line is formatted
FormattingRaises(obj) == obj = "RAISES"

SceneIsEmpty == <<"Scene is empty.">>

\* a description whose cut is made on the lines instead of on the objects
describe_sceneCapsLines(objs) ==
    LET desc == SelectSeq(objs, LAMBDA obj : ~FormattingRaises(obj))
    IN  IF desc = <<>> THEN SceneIsEmpty
        ELSE SubSeq(desc, 1, IF Len(desc) < SceneCap THEN Len(desc) ELSE SceneCap)

\* describe_scene: one line per object among the first SceneCap objects (a
\* line is represented by the type tag of its object), an object whose
\* formatting raises being skipped; or the sentinel when no line was made
describe_scene(objs) ==
    LET considered == SubSeq(objs, 1, IF Len(objs) < SceneCap THEN Len(objs) ELSE SceneCap)
        desc       == SelectSeq(considered, LAMBDA obj : ~FormattingRaises(obj))
    IN  IF desc = <<>> THEN SceneIsEmpty ELSE desc

CountType(objs, t) == Cardinality({i \in 1..Len(objs) : objs[i] = t})

get_scene_statistics(objs) ==
    [total_objects |-> Len(objs),
     meshes        |-> CountType(objs, "MESH"),
     lights        |-> CountType(objs, "LIGHT"),
     cameras       |-> CountType(objs, "CAMERA"),
     empties       |-> CountType(objs, "EMPTY")]

NoStats == [total_objects |-> 0, meshes |-> 0, lights |-> 0, cameras |-> 0, empties |-> 0]

\* exec(code) against the live scene, statement by statement: the set of
\* possible results [objs, raised].  The cube-add operator either adds a
\* mesh or raises (bpy.ops calls fail on a wrong context); the other valid
\* statements of the alphabet leave the scene alone.  A raise stops the
\* artifact where it is and keeps what the earlier statements did.
RECURSIVE ExecLines(_, _)
ExecLines(ls, objs) ==
    IF ls = <<>> THEN {[objs |-> objs, raised |-> FALSE]}
    ELSE IF IsBlankLine(ls[1]) THEN ExecLines(Tail(ls), objs)
    ELSE IF Head(ls[1]) = "BPY"
         THEN {[objs |-> objs, raised |-> TRUE]}
              \cup ExecLines(Tail(ls), Append(objs, "MESH"))
         ELSE ExecLines(Tail(ls), objs)

ExecResults(code, objs) == ExecLines(SplitLines(code), objs)

\* --------------------------------------------------------------- messages
\* a status or response text: a fixed format and the text formatted into it
Msg(fmt, arg) == [fmt |-> fmt, arg |-> arg]

\* the value None
NoneVal == <<"None">>

\* the adapters' error-tagged text: f"Error: {str(e)}", and llm_agent's
\* "Error: Failed to get valid response"
ErrorText == <<"ERR">>

\* ------------------------------------------------------------------ inputs
Reqs == 1..MaxRequests

\* thread identities: 0 is the host's main thread, request r runs on thread r
MainThread == 0

Models == {"chatgpt", "llama3"}

\* what a model may answer to a CODE prompt: good fenced code, fenced code
\* with a denylisted import in each of its two spellings, fenced code that
\* does not parse, and prose without code
CodeOutputs ==
    { <<"FPY", "NL", "BPY", "NL", "F">>,
      <<"FPY", "NL", "IMPS", "NL", "F">>,
      <<"FPY", "NL", "IMPC", "NL", "F">>,
      <<"FPY", "NL", "BAD", "NL", "F">>,
      <<"X">> }

\* what a model may answer to a QA prompt: prose, or an answer that holds a
\* fenced block of good code
QaOutputs ==
    { <<"X">>,
      <<"X", "NL", "FPY", "NL", "BPY", "NL", "F">> }

ProviderOutputs(mode) == IF mode = "CODE" THEN CodeOutputs ELSE QaOutputs

\* openai_agent: the completion's content (a text, or None: the API types it
\* Optional), or the error text
openai_agent(mode) == ProviderOutputs(mode) \cup {NoneVal, ErrorText}

\* llm_agent: the response's content, or the error text (a None content
\* raises at len(content) inside the try and becomes the error text)
llm_agent(mode) == ProviderOutputs(mode) \cup {ErrorText}

\* the workers' choice of adapter by model_option
AdapterResults(option, mode) ==
    IF option = "chatgpt" THEN openai_agent(mode) ELSE llm_agent(mode)

IsAdapterError(text) == text = ErrorText

\* every text a CODE worker may hand to preprocess_code
GateInputs == CodeOutputs \cup {ErrorText}

\* preprocess_code tabulated over GateInputs, so that it is computed once
GateTable == [text \in GateInputs |-> preprocess_code(text)]

\* clean_code = preprocess_code(output_text)
CleanCode(text) == GateTable[text]

\* ------------------------------------------------------------------- state
VARIABLES
    scene,                 \* bpy.context.scene.objects: sequence of type tags
    ai_status_log,         \* bpy.context.scene.ai_status_log
    ai_response,           \* bpy.context.scene.ai_response
    conversation_history,  \* the global list of {question, answer}
    execution_queue,       \* the global queue.Queue of [req, code]
    timers,                \* bpy.app.timers: registered callbacks, oldest first
    nreq,                  \* number of requests submitted so far
    worker,                \* per request: its thread's position and locals
    mainPc,                \* the main thread: "idle", "drain" (loop test), "exec"
    cur,                   \* process_queue_timer's local `code`
    drainInv,              \* number of process_queue_timer invocations started
    putLog,                \* history: requests in the order of their put
    execLog,               \* history: every exec(code): the thread that ran it, the
                           \* drain invocation, the outcome, who waited behind it
    ai_log,                \* history: per thread, the messages given to update_log
    failed_code,           \* history: the "Failed Code" console prints
    hostWriters,           \* history: threads that wrote host state directly
    hostReaders,           \* history: threads that read the live scene objects
    pure                   \* the function under evaluation, outside the pipeline

vars == <<scene, ai_status_log, ai_response, conversation_history, execution_queue,
          timers, nreq, worker, mainPc, cur, drainInv, putLog, execLog, ai_log,
          failed_code, hostWriters, hostReaders, pure>>

hostVars == <<scene, ai_status_log, ai_response>>
histVars == <<putLog, execLog, failed_code, hostWriters, hostReaders>>

NoArtifact == [req |-> 0, code |-> <<>>]

\* no function is under evaluation while the pipeline runs
NoPure == [fn |-> "none", pc |-> "none", arg |-> <<>>, out |-> <<>>, again |-> <<>>]

\* a function about to be called on an argument
PureCall(fn, arg) == [fn |-> fn, pc |-> "call", arg |-> arg, out |-> <<>>, again |-> <<>>]

pipelineVars == <<scene, ai_status_log, ai_response, conversation_history,
                  execution_queue, timers, nreq, worker, mainPc, cur, drainInv,
                  putLog, execLog, ai_log, failed_code, hostWriters, hostReaders>>

IdleWorker ==
    [pc |-> "none", mode |-> "NONE", option |-> "none", ctx |-> <<>>,
     out |-> <<>>, clean |-> <<>>, stats |-> NoStats]

\* a thread that has returned: its locals are gone
DoneWorker(mode) == [IdleWorker EXCEPT !.pc = "done", !.mode = mode]

\* scenes the host may hold when the add-on is registered
InitScenes == { <<"MESH", "LIGHT">> }

\* the pipeline after register(): nothing submitted, nothing scheduled
PipelineInit ==
    /\ scene \in InitScenes
    /\ ai_status_log = Msg("Ready. Select a mode to begin.", <<>>)
    /\ ai_response = <<>>
    /\ conversation_history = <<>>
    /\ execution_queue = <<>>
    /\ timers = <<>>
    /\ nreq = 0
    /\ worker = [r \in Reqs |-> IdleWorker]
    /\ mainPc = "idle"
    /\ cur = NoArtifact
    /\ drainInv = 0
    /\ putLog = <<>>
    /\ execLog = <<>>
    /\ ai_log = [t \in 0..MaxRequests |-> <<>>]
    /\ failed_code = <<>>
    /\ hostWriters = {}
    /\ hostReaders = {}

Init == PipelineInit /\ pure = NoPure

\* ------------------------------------------------------------ the sink
\* bpy.app.timers.register(f): the callback joins the host's timer list
TimerRegister(ts, fn, msg) == Append(ts, [fn |-> fn, msg |-> msg])

\* a scheduler that runs the newest status write first
UpdateLogTimersNewestFirst(ts, m) == <<[fn |-> "update_log.update_ui", msg |-> m]>> \o ts

\* an update_log that registers its callback twice
UpdateLogTimersTwice(ts, m) ==
    Append(Append(ts, [fn |-> "update_log.update_ui", msg |-> m]),
           [fn |-> "update_log.update_ui", msg |-> m])

\* update_log(message) called on thread t: the console print and the
\* registration of update_ui
UpdateLogTimers(ts, m) == TimerRegister(ts, "update_log.update_ui", m)

UpdateLogPrint(log, t, m) == [log EXCEPT ![t] = Append(@, m)]

\* update_response(message)
UpdateResponseTimers(ts, text) == TimerRegister(ts, "update_response.update_ui", text)

\* -------------------------------------------------------- the queue
\* execution_queue.put(item)
QueuePut(q, item) == Append(q, item)

\* the requests whose artifacts are waiting in the queue
QueuedReqs(q) == {q[i].req : i \in 1..Len(q)}

\* a get that leaves the item in the queue
QueueGetKeepsItem(q) == [item |-> Head(q), rest |-> q]

\* a get that takes the newest item
QueueGetNewest(q) == [item |-> q[Len(q)], rest |-> SubSeq(q, 1, Len(q) - 1)]

\* execution_queue.get() on a non-empty queue: the item and what remains
QueueGet(q) == [item |-> Head(q), rest |-> Tail(q)]

\* ------------------------------------------------- operators (main thread)
\* OBJECT_OT_SubmitPrompt.execute with an empty prompt: the warning report
\* and return {'CANCELLED'}
SubmitPromptEmpty ==
    /\ mainPc = "idle"
    /\ UNCHANGED vars

\* OBJECT_OT_AskQuestion.execute with an empty question: the warning report
\* and return {'CANCELLED'}
AskQuestionEmpty ==
    /\ mainPc = "idle"
    /\ UNCHANGED vars

\* a submit that waits for its worker's first step before it returns
SubmitPromptRunsWorker(option) ==
    /\ mainPc = "idle"
    /\ nreq < MaxRequests
    /\ nreq' = nreq + 1
    /\ worker' = [worker EXCEPT ![nreq + 1] =
                     [IdleWorker EXCEPT !.pc = "code_generate", !.mode = "CODE",
                                        !.option = option,
                                        !.ctx = describe_scene(scene)]]
    /\ ai_status_log' = [fmt |-> "Reading scene...", arg |-> <<>>]
    /\ timers' = Append(timers, [fn  |-> "update_log.update_ui",
                                 msg |-> [fmt |-> "Analyzing scene and generating code...",
                                          arg |-> <<>>]])
    /\ ai_log' = [ai_log EXCEPT ![nreq + 1] =
                     Append(@, [fmt |-> "Analyzing scene and generating code...",
                                arg |-> <<>>])]
    /\ hostWriters' = hostWriters \cup {MainThread}
    /\ hostReaders' = hostReaders \cup {MainThread}
    /\ UNCHANGED <<pure, scene, ai_response, conversation_history, execution_queue,
                   mainPc, cur, drainInv, putLog, execLog, failed_code>>

\* OBJECT_OT_SubmitPrompt.execute with a non-empty prompt
SubmitPrompt(option) ==
    /\ mainPc = "idle"
    /\ nreq < MaxRequests
    /\ nreq' = nreq + 1
    /\ worker' = [worker EXCEPT ![nreq + 1] =
                     [IdleWorker EXCEPT !.pc = "code_start", !.mode = "CODE",
                                        !.option = option,
                                        !.ctx = describe_scene(scene)]]
    /\ ai_status_log' = Msg("Reading scene...", <<>>)
    /\ hostWriters' = hostWriters \cup {MainThread}
    /\ hostReaders' = hostReaders \cup {MainThread}
    /\ UNCHANGED <<pure, scene, ai_response, conversation_history, execution_queue, timers,
                   mainPc, cur, drainInv, putLog, execLog, ai_log, failed_code>>

\* OBJECT_OT_AskQuestion.execute with a non-empty question
AskQuestion(option) ==
    /\ mainPc = "idle"
    /\ nreq < MaxRequests
    /\ nreq' = nreq + 1
    /\ worker' = [worker EXCEPT ![nreq + 1] =
                     [IdleWorker EXCEPT !.pc = "qa_start", !.mode = "QA",
                                        !.option = option,
                                        !.ctx = describe_scene(scene)]]
    /\ ai_status_log' = Msg("Analyzing scene...", <<>>)
    /\ ai_response' = <<>>
    /\ hostWriters' = hostWriters \cup {MainThread}
    /\ hostReaders' = hostReaders \cup {MainThread}
    /\ UNCHANGED <<pure, scene, conversation_history, execution_queue, timers,
                   mainPc, cur, drainInv, putLog, execLog, ai_log, failed_code>>

\* a clear that also abandons the QA workers in flight
ClearHistoryStopsWorkers ==
    /\ mainPc = "idle"
    /\ conversation_history' = <<>>
    /\ ai_response' = <<>>
    /\ ai_status_log' = Msg("History cleared. Ready.", <<>>)
    /\ hostWriters' = hostWriters \cup {MainThread}
    /\ worker' = [r \in Reqs |-> IF worker[r].mode = "QA" /\ worker[r].pc # "done"
                                 THEN DoneWorker("QA") ELSE worker[r]]
    /\ UNCHANGED <<pure, hostReaders, scene, execution_queue, timers, nreq, mainPc, cur,
                   drainInv, putLog, execLog, ai_log, failed_code>>

\* OBJECT_OT_ClearHistory.execute
ClearHistory ==
    /\ mainPc = "idle"
    /\ conversation_history' = <<>>
    /\ ai_response' = <<>>
    /\ ai_status_log' = Msg("History cleared. Ready.", <<>>)
    /\ hostWriters' = hostWriters \cup {MainThread}
    /\ UNCHANGED <<pure, hostReaders, scene, execution_queue, timers, nreq, worker, mainPc, cur,
                   drainInv, putLog, execLog, ai_log, failed_code>>

\* ------------------------------------------------ ai_code_worker_thread
\* a test that lets every gate result through
GateAcceptedAlways(clean) == TRUE

\* the `if not clean_code` test, negated
GateAccepted(clean) == clean # <<>>

\* update_log("Analyzing scene and generating code...")
CodeStart(r) ==
    /\ worker[r].pc = "code_start"
    /\ LET m == Msg("Analyzing scene and generating code...", <<>>)
       IN  /\ timers' = UpdateLogTimers(timers, m)
           /\ ai_log' = UpdateLogPrint(ai_log, r, m)
    /\ worker' = [worker EXCEPT ![r].pc = "code_generate"]
    /\ UNCHANGED <<pure, hostVars, conversation_history, execution_queue, nreq, mainPc,
                   cur, drainInv, histVars>>

\* the adapter call, the debug print of output_text[:500] (a TypeError on
\* None, caught by the worker's except) and update_log("Processing code...")
CodeGenerate(r) ==
    /\ worker[r].pc = "code_generate"
    /\ \E out \in AdapterResults(worker[r].option, worker[r].mode) :
          LET m == IF out = NoneVal
                   THEN Msg("Error during generation: ", <<"TypeError">>)
                   ELSE Msg("Processing code...", <<>>)
          IN  /\ timers' = UpdateLogTimers(timers, m)
              /\ ai_log' = UpdateLogPrint(ai_log, r, m)
              /\ worker' = [worker EXCEPT ![r] =
                              IF out = NoneVal THEN DoneWorker("CODE")
                              ELSE [@ EXCEPT !.out = out, !.pc = "code_process"]]
    /\ UNCHANGED <<pure, hostVars, conversation_history, execution_queue, nreq, mainPc,
                   cur, drainInv, histVars>>

\* a worker that runs the code itself instead of handing it over
CodeEnqueueExecutesInWorker(r) ==
    /\ \E res \in ExecResults(CleanCode(worker[r].out), scene) :
          /\ scene' = res.objs
          /\ execLog' = Append(execLog, [req |-> r, code |-> CleanCode(worker[r].out),
                                         by |-> r, inv |-> drainInv,
                                         raised |-> res.raised, behind |-> {}])
    /\ hostWriters' = hostWriters \cup {r}
    /\ hostReaders' = hostReaders \cup {r}
    /\ worker' = [worker EXCEPT ![r] = DoneWorker("CODE")]
    /\ UNCHANGED <<pure, ai_status_log, ai_response, conversation_history, execution_queue,
                   timers, nreq, mainPc, cur, drainInv, putLog, ai_log, failed_code>>

\* a worker that returns right after its put
CodeEnqueueSkipsRegister(r) ==
    /\ execution_queue' =
           QueuePut(execution_queue, [req |-> r, code |-> CleanCode(worker[r].out)])
    /\ putLog' = Append(putLog, r)
    /\ worker' = [worker EXCEPT ![r] = DoneWorker("CODE")]
    /\ UNCHANGED <<pure, hostVars, conversation_history, timers, nreq, mainPc, cur,
                   drainInv, execLog, ai_log, failed_code, hostWriters, hostReaders>>

\* execution_queue.put(clean_code)
CodeEnqueue(r) ==
    /\ execution_queue' =
           QueuePut(execution_queue, [req |-> r, code |-> CleanCode(worker[r].out)])
    /\ putLog' = Append(putLog, r)
    /\ worker' = [worker EXCEPT ![r].clean = CleanCode(worker[r].out),
                                ![r].pc = "code_register"]
    /\ UNCHANGED <<pure, hostVars, conversation_history, timers, nreq, mainPc, cur,
                   drainInv, execLog, ai_log, failed_code, hostWriters, hostReaders>>

NoValidCode == Msg("Error: No valid code generated. Check console for details.", <<>>)

\* update_log("Error: No valid code generated. ..."); return
CodeReject(r) ==
    /\ timers' = UpdateLogTimers(timers, NoValidCode)
    /\ ai_log' = UpdateLogPrint(ai_log, r, NoValidCode)
    /\ worker' = [worker EXCEPT ![r] = DoneWorker("CODE")]
    /\ UNCHANGED <<pure, hostVars, conversation_history, execution_queue, nreq, mainPc,
                   cur, drainInv, histVars>>

\* clean_code = preprocess_code(output_text), then either the error status
\* and return, or the put
CodeProcess(r) ==
    /\ worker[r].pc = "code_process"
    /\ IF GateAccepted(CleanCode(worker[r].out))
       THEN CodeEnqueue(r)
       ELSE CodeReject(r)

\* a worker that forgets to arm the drain callback
CodeRegisterForgets(r) ==
    /\ worker[r].pc = "code_register"
    /\ worker' = [worker EXCEPT ![r] = DoneWorker("CODE")]
    /\ UNCHANGED <<pure, hostVars, conversation_history, execution_queue, timers, nreq,
                   mainPc, cur, drainInv, histVars, ai_log>>

\* bpy.app.timers.register(process_queue_timer)
CodeRegister(r) ==
    /\ worker[r].pc = "code_register"
    /\ timers' = TimerRegister(timers, "process_queue_timer", Msg("", <<>>))
    /\ worker' = [worker EXCEPT ![r] = DoneWorker("CODE")]
    /\ UNCHANGED <<pure, hostVars, conversation_history, execution_queue, nreq, mainPc,
                   cur, drainInv, histVars, ai_log>>

\* -------------------------------------------------- ai_qa_worker_thread
\* update_log("Analyzing scene and preparing answer...")
QaStart(r) ==
    /\ worker[r].pc = "qa_start"
    /\ LET m == Msg("Analyzing scene and preparing answer...", <<>>)
       IN  /\ timers' = UpdateLogTimers(timers, m)
           /\ ai_log' = UpdateLogPrint(ai_log, r, m)
    /\ worker' = [worker EXCEPT ![r].pc = "qa_stats"]
    /\ UNCHANGED <<pure, hostVars, conversation_history, execution_queue, nreq, mainPc,
                   cur, drainInv, histVars>>

\* stats = get_scene_statistics(), read from the live scene on the worker
QaStats(r) ==
    /\ worker[r].pc = "qa_stats"
    /\ worker' = [worker EXCEPT ![r].stats = get_scene_statistics(scene),
                                ![r].pc = "qa_generate"]
    /\ hostReaders' = hostReaders \cup {r}
    /\ UNCHANGED <<pure, hostVars, conversation_history, execution_queue, timers, nreq,
                   mainPc, cur, drainInv, putLog, execLog, failed_code, hostWriters,
                   ai_log>>

\* a worker that keeps failed answers out of the history
QaGenerateDropsErrors(r) ==
    /\ worker[r].pc = "qa_generate"
    /\ \E out \in AdapterResults(worker[r].option, worker[r].mode) :
          /\ conversation_history' =
                 IF IsAdapterError(out) THEN conversation_history
                 ELSE Append(conversation_history, [question |-> r, answer |-> out])
          /\ worker' = [worker EXCEPT ![r].out = out, ![r].pc = "qa_respond"]
    /\ UNCHANGED <<pure, hostVars, execution_queue, timers, nreq, mainPc, cur, drainInv,
                   histVars, ai_log>>

\* the adapter call and conversation_history.append({question, answer})
QaGenerate(r) ==
    /\ worker[r].pc = "qa_generate"
    /\ \E out \in AdapterResults(worker[r].option, worker[r].mode) :
          /\ conversation_history' =
                 Append(conversation_history, [question |-> r, answer |-> out])
          /\ worker' = [worker EXCEPT ![r].out = out, ![r].pc = "qa_respond"]
    /\ UNCHANGED <<pure, hostVars, execution_queue, timers, nreq, mainPc, cur, drainInv,
                   histVars, ai_log>>

\* a worker that also hands the code found in the answer to the queue
QaRespondEnqueues(r) ==
    /\ worker[r].pc = "qa_respond"
    /\ timers' = TimerRegister(UpdateResponseTimers(timers, worker[r].out),
                               "process_queue_timer", Msg("", <<>>))
    /\ execution_queue' =
           QueuePut(execution_queue, [req |-> r, code |-> ExtractFenced(worker[r].out)])
    /\ worker' = [worker EXCEPT ![r].pc = "qa_log"]
    /\ UNCHANGED <<pure, hostVars, conversation_history, nreq, mainPc, cur, drainInv,
                   histVars, ai_log>>

\* update_response(output_text)
QaRespond(r) ==
    /\ worker[r].pc = "qa_respond"
    /\ timers' = UpdateResponseTimers(timers, worker[r].out)
    /\ worker' = [worker EXCEPT ![r].pc = "qa_log"]
    /\ UNCHANGED <<pure, hostVars, conversation_history, execution_queue, nreq, mainPc,
                   cur, drainInv, histVars, ai_log>>

\* update_log("Answer ready!")
QaReady(r) ==
    /\ worker[r].pc = "qa_log"
    /\ LET m == Msg("Answer ready!", <<>>)
       IN  /\ timers' = UpdateLogTimers(timers, m)
           /\ ai_log' = UpdateLogPrint(ai_log, r, m)
    /\ worker' = [worker EXCEPT ![r] = DoneWorker("QA")]
    /\ UNCHANGED <<pure, hostVars, conversation_history, execution_queue, nreq, mainPc,
                   cur, drainInv, histVars>>

\* -------------------------------------- the host's timers (main thread)
\* update_log's update_ui: bpy.context.scene.ai_status_log = message
ApplyStatus ==
    /\ mainPc = "idle"
    /\ timers # <<>>
    /\ Head(timers).fn = "update_log.update_ui"
    /\ ai_status_log' = Head(timers).msg
    /\ timers' = Tail(timers)
    /\ hostWriters' = hostWriters \cup {MainThread}
    /\ UNCHANGED <<pure, hostReaders, scene, ai_response, conversation_history, execution_queue, nreq,
                   worker, mainPc, cur, drainInv, putLog, execLog, ai_log, failed_code>>

\* update_response's update_ui: bpy.context.scene.ai_response = message (the
\* string property refuses None with a TypeError and keeps its value)
ApplyResponse ==
    /\ mainPc = "idle"
    /\ timers # <<>>
    /\ Head(timers).fn = "update_response.update_ui"
    /\ ai_response' = IF Head(timers).msg = NoneVal THEN ai_response ELSE Head(timers).msg
    /\ timers' = Tail(timers)
    /\ hostWriters' = hostWriters \cup {MainThread}
    /\ UNCHANGED <<pure, hostReaders, scene, ai_status_log, conversation_history, execution_queue, nreq,
                   worker, mainPc, cur, drainInv, putLog, execLog, ai_log, failed_code>>

\* the scheduler calls process_queue_timer
DrainBegin ==
    /\ mainPc = "idle"
    /\ timers # <<>>
    /\ Head(timers).fn = "process_queue_timer"
    /\ timers' = Tail(timers)
    /\ mainPc' = "drain"
    /\ drainInv' = drainInv + 1
    /\ UNCHANGED <<pure, hostVars, conversation_history, execution_queue, nreq, worker,
                   cur, histVars, ai_log>>

\* while not execution_queue.empty(): code = execution_queue.get();
\* update_log("Executing Code...")
DrainPop ==
    /\ mainPc = "drain"
    /\ execution_queue # <<>>
    /\ cur' = QueueGet(execution_queue).item
    /\ execution_queue' = QueueGet(execution_queue).rest
    /\ LET m == Msg("Executing Code...", <<>>)
       IN  /\ timers' = UpdateLogTimers(timers, m)
           /\ ai_log' = UpdateLogPrint(ai_log, MainThread, m)
    /\ mainPc' = "exec"
    /\ UNCHANGED <<pure, hostVars, conversation_history, nreq, worker, drainInv, histVars>>

\* a drain whose loop has no try/except: a raise leaves the callback
DrainExecPropagates ==
    /\ mainPc = "exec"
    /\ \E res \in ExecResults(cur.code, scene) :
          /\ scene' = res.objs
          /\ timers' = IF res.raised THEN timers
                       ELSE UpdateLogTimers(timers, Msg("Done! Scene updated.", <<>>))
          /\ ai_log' = IF res.raised THEN ai_log
                       ELSE UpdateLogPrint(ai_log, MainThread,
                                           Msg("Done! Scene updated.", <<>>))
          /\ execLog' = Append(execLog, [req |-> cur.req, code |-> cur.code,
                                         by |-> MainThread, inv |-> drainInv,
                                         raised |-> res.raised,
                                         behind |-> QueuedReqs(execution_queue)])
          /\ mainPc' = IF res.raised THEN "idle" ELSE "drain"
    /\ hostWriters' = hostWriters \cup {MainThread}
    /\ hostReaders' = hostReaders \cup {MainThread}
    /\ cur' = NoArtifact
    /\ UNCHANGED <<pure, ai_status_log, ai_response, conversation_history, execution_queue,
                   nreq, worker, drainInv, putLog, failed_code>>

\* exec(code), then update_log("Done! Scene updated."), or the except
\* branch: update_log(f"Execution Error: {e}") and the Failed Code print;
\* either way the loop goes on
DrainExec ==
    /\ mainPc = "exec"
    /\ \E res \in ExecResults(cur.code, scene) :
          LET m == IF res.raised THEN Msg("Execution Error: ", <<"RuntimeError">>)
                   ELSE Msg("Done! Scene updated.", <<>>)
          IN  /\ scene' = res.objs
              /\ timers' = UpdateLogTimers(timers, m)
              /\ ai_log' = UpdateLogPrint(ai_log, MainThread, m)
              /\ failed_code' = IF res.raised THEN Append(failed_code, cur)
                                ELSE failed_code
              /\ execLog' = Append(execLog, [req |-> cur.req, code |-> cur.code,
                                             by |-> MainThread, inv |-> drainInv,
                                             raised |-> res.raised,
                                             behind |-> QueuedReqs(execution_queue)])
    /\ hostWriters' = hostWriters \cup {MainThread}
    /\ hostReaders' = hostReaders \cup {MainThread}
    /\ cur' = NoArtifact
    /\ mainPc' = "drain"
    /\ UNCHANGED <<pure, ai_status_log, ai_response, conversation_history, execution_queue,
                   nreq, worker, drainInv, putLog>>

\* a drain callback that registers itself again when it is done
DrainReturnRearms ==
    /\ mainPc = "drain"
    /\ execution_queue = <<>>
    /\ mainPc' = "idle"
    /\ timers' = Append(timers, [fn |-> "process_queue_timer", msg |-> [fmt |-> "", arg |-> <<>>]])
    /\ UNCHANGED <<pure, hostVars, conversation_history, execution_queue, nreq,
                   worker, cur, drainInv, histVars, ai_log>>

\* the loop test fails: return None, the timer is not re-registered
DrainReturn ==
    /\ mainPc = "drain"
    /\ execution_queue = <<>>
    /\ mainPc' = "idle"
    /\ UNCHANGED <<pure, hostVars, conversation_history, execution_queue, timers, nreq,
                   worker, cur, drainInv, histVars, ai_log>>

\* -------------------------------------------------------- specification
WorkerStep(r) ==
    \/ CodeStart(r)
    \/ CodeGenerate(r)
    \/ CodeProcess(r)
    \/ CodeRegister(r)
    \/ QaStart(r)
    \/ QaStats(r)
    \/ QaGenerate(r)
    \/ QaRespond(r)
    \/ QaReady(r)

HostStep ==
    \/ ApplyStatus
    \/ ApplyResponse
    \/ DrainBegin
    \/ DrainPop
    \/ DrainExec
    \/ DrainReturn

UserStep ==
    \/ SubmitPromptEmpty
    \/ \E option \in Models : SubmitPrompt(option)
    \/ AskQuestionEmpty
    \/ \E option \in Models : AskQuestion(option)
    \/ ClearHistory

Next ==
    \/ UserStep
    \/ HostStep
    \/ \E r \in Reqs : WorkerStep(r)

Spec == Init /\ [][Next]_vars

\* The scheduling the code relies on: a started thread keeps running, the
\* host keeps calling its registered timers and a running callback goes on.
\* The user is under no obligation to submit or clear anything.
LiveSpec ==
    /\ Spec
    /\ \A r \in Reqs : WF_vars(WorkerStep(r))
    /\ WF_vars(HostStep)

\* ------------------------------------------------------------- properties
Executed(r) == \E i \in 1..Len(execLog) : execLog[i].req = r

Enqueued(r) == \E i \in 1..Len(putLog) : putLog[i] = r

InQueue(r) == r \in QueuedReqs(execution_queue)

\* number of process_queue_timer registrations waiting in the timer list
DrainTimers(ts) == Cardinality({i \in 1..Len(ts) : ts[i].fn = "process_queue_timer"})

Logged(t, m) == \E i \in 1..Len(ai_log[t]) : ai_log[t][i] = m

\* the artifacts that are queued, being executed, or were executed
Artifacts ==
    {execution_queue[i].code : i \in 1..Len(execution_queue)}
    \cup {execLog[i].code : i \in 1..Len(execLog)}
    \cup (IF mainPc = "exec" THEN {cur.code} ELSE {})

ContainsUnsafeImport(code) == \E i \in 1..Len(code) : ImportsUnsafeLib(code[i])

\* text is a contiguous part of whole
Contains(whole, text) ==
    /\ text # <<>>
    /\ \E i \in 1..Len(whole) :
          /\ i + Len(text) - 1 <= Len(whole)
          /\ SubSeq(whole, i, i + Len(text) - 1) = text

\* C1: generated code is executed only by the drain callback on the main
\* thread: no exec and no direct write of host state is done by a worker
\* thread.
C1_ExecOnlyOnMainThread ==
    /\ \A i \in 1..Len(execLog) : execLog[i].by = MainThread
    /\ hostWriters \subseteq {MainThread}

\* an artifact was executed while its own worker was still running
C1_Witness ==
    \E r \in Reqs : /\ Executed(r)
                    /\ worker[r].pc = "code_register"
                    /\ MainThread \in hostWriters

\* C2: no artifact is executed more than once, whatever the interleaving and
\* however many drain callbacks are armed.
C2_ExecutedAtMostOnce ==
    \A i, j \in 1..Len(execLog) : execLog[i].req = execLog[j].req => i = j

\* two artifacts were executed and a second armed drain callback is still
\* waiting to run
C2_Witness ==
    /\ Len(execLog) = 2
    /\ DrainTimers(timers) >= 1
    /\ drainInv >= 1

\* C3: every artifact that is enqueued or executed contains no import of a
\* denylisted module and parses as valid code.
C3_NoUnsafeImportReachesQueue ==
    \A code \in Artifacts : ~ContainsUnsafeImport(code) /\ ParsesOk(code)

\* a CODE worker is about to return because its request failed
FailsAtGate(r) ==
    /\ worker[r].pc = "code_process"
    /\ CleanCode(worker[r].out) = <<>>

FailsAtGeneration(r) ==
    /\ worker[r].pc = "code_generate"
    /\ worker'[r].pc = "done"

\* C4: a CODE request that fails before execution (provider error, no code
\* found, denylisted import found, syntax error, or a raise in the worker)
\* ends its worker with nothing put on the queue, no drain callback armed,
\* nothing executed and the scene as it was; and a worker that returned
\* without a put has no artifact queued or executed, ever.
C4_FailedRequestQueuesNothing ==
    /\ [][\A r \in Reqs :
            ((FailsAtGate(r) \/ FailsAtGeneration(r)) /\ worker'[r] # worker[r])
            => /\ worker'[r].pc = "done"
               /\ execution_queue' = execution_queue
               /\ DrainTimers(timers') = DrainTimers(timers)
               /\ execLog' = execLog
               /\ scene' = scene]_vars
    /\ [](\A r \in Reqs :
            (worker[r].pc = "done" /\ ~Enqueued(r))
            => ~InQueue(r) /\ ~Executed(r) /\ cur.req # r)

\* a CODE request failed at the gate while another request's artifact was
\* waiting in the queue
C4_Witness ==
    \E r \in Reqs : /\ worker[r].mode = "CODE"
                    /\ worker[r].pc = "done"
                    /\ ~Enqueued(r)
                    /\ Logged(r, NoValidCode)
                    /\ execution_queue # <<>>

\* C5: every artifact put on the execution queue is eventually executed by
\* a drain invocation (under LiveSpec's scheduling).
C5_EnqueuedEventuallyExecuted == \A r \in Reqs : InQueue(r) ~> Executed(r)

\* an artifact was executed, by the drain another worker armed, before its
\* own worker registered the callback
C5_Witness ==
    \E r \in Reqs : /\ Executed(r)
                    /\ worker[r].pc = "code_register"

\* C6: artifacts are executed in the order of their put: the executions are
\* a prefix of the puts.
C6_ExecutedInPutOrder ==
    /\ Len(execLog) <= Len(putLog)
    /\ \A i \in 1..Len(execLog) : i <= Len(putLog) => execLog[i].req = putLog[i]

\* two artifacts were executed, the one of the request submitted second
\* first, because it was put first
C6_Witness ==
    /\ Len(execLog) = 2
    /\ execLog[1].req = 2
    /\ execLog[2].req = 1

\* C7: when an artifact raises, the failure is reported (status 'Execution
\* Error', the code printed) and every artifact that waited behind it is
\* executed in the same drain invocation, which ends only on an empty queue.
C7_FailureDoesNotStopDrain ==
    \A i \in 1..Len(execLog) :
        execLog[i].raised =>
            /\ Logged(MainThread, Msg("Execution Error: ", <<"RuntimeError">>))
            /\ \E k \in 1..Len(failed_code) :
                   failed_code[k] = [req |-> execLog[i].req, code |-> execLog[i].code]
            /\ \A q \in execLog[i].behind :
                   \/ \E j \in (i + 1)..Len(execLog) :
                          execLog[j].req = q /\ execLog[j].inv = execLog[i].inv
                   \/ (mainPc # "idle" /\ drainInv = execLog[i].inv)

\* a drain invocation has returned in which the first artifact raised and
\* the second one was executed all the same
C7_Witness ==
    /\ mainPc = "idle"
    /\ Len(execLog) = 2
    /\ execLog[1].raised
    /\ execLog[1].behind # {}
    /\ execLog[2].inv = execLog[1].inv

\* C8: a QA worker appends exactly one {question, answer} pair, whose answer
\* is what the adapter returned (the error text when the provider failed),
\* and hands that same answer to the response sink; no other step of a
\* worker touches the conversation log.
C8_QaRecordsAndShowsAnswer ==
    [][\A r \in Reqs :
         worker'[r] # worker[r] =>
            /\ IF worker[r].pc = "qa_generate"
               THEN /\ worker'[r].out \in AdapterResults(worker[r].option, "QA")
                    /\ conversation_history' =
                           Append(conversation_history,
                                  [question |-> r, answer |-> worker'[r].out])
               ELSE conversation_history' = conversation_history
            /\ worker[r].pc = "qa_respond"
               => timers' = Append(timers, [fn  |-> "update_response.update_ui",
                                            msg |-> worker[r].out])]_vars

\* the provider failed, and its error text is in the log and on display
C8_Witness ==
    /\ \E i \in 1..Len(conversation_history) :
           conversation_history[i].answer = ErrorText
    /\ ai_response = ErrorText
    /\ \E r \in Reqs : worker[r].mode = "QA" /\ worker[r].pc = "done"

HasFencedCode(text) == ExtractFenced(text) # <<>>

\* C9: a QA worker never changes the execution queue, never arms the drain
\* callback and executes nothing; nothing queued or executed comes from a
\* QA request.
C9_QaNeverQueuesCode ==
    /\ [][\A r \in Reqs :
            (worker[r].mode = "QA" /\ worker'[r] # worker[r])
            => /\ execution_queue' = execution_queue
               /\ DrainTimers(timers') = DrainTimers(timers)
               /\ execLog' = execLog
               /\ scene' = scene]_vars
    /\ [](\A r \in Reqs :
            worker[r].mode = "QA"
            => ~InQueue(r) /\ ~Executed(r) /\ ~Enqueued(r) /\ cur.req # r)

\* a QA worker has finished with an answer that holds a fenced code block,
\* and nothing was queued, armed or executed
C9_Witness ==
    /\ \E r \in Reqs : worker[r].mode = "QA" /\ worker[r].pc = "done"
    /\ HasFencedCode(ai_response)
    /\ execution_queue = <<>>
    /\ execLog = <<>>
    /\ drainInv = 0
    /\ DrainTimers(timers) = 0

\* C10: when the adapter returns its error text to a CODE worker, the
\* worker writes a status message that contains that error text, and puts
\* nothing on the queue.
C10_AdapterErrorShownInStatus ==
    [][\A r \in Reqs :
         (/\ worker[r].pc = "code_process"
          /\ IsAdapterError(worker[r].out)
          /\ worker'[r] # worker[r])
         => /\ execution_queue' = execution_queue
            /\ Len(ai_log'[r]) = Len(ai_log[r]) + 1
            /\ Contains(ai_log'[r][Len(ai_log'[r])].arg, worker[r].out)]_vars

\* ---------------------------------------------------------------- C11
DoneStatus == Msg("Done! Scene updated.", <<>>)

ClearedStatus == Msg("History cleared. Ready.", <<>>)

\* the host's timer list empty and no callback running: every scheduled
\* sink write has been applied
SinkQuiet == timers = <<>> /\ mainPc = "idle"

\* request r is the only request so far, a CODE request whose code passed
\* the gate and was executed without raising, and its worker has returned
LoneCodeSuccess(r) ==
    /\ nreq = 1
    /\ r = 1
    /\ worker[r].mode = "CODE"
    /\ worker[r].pc = "done"
    /\ execution_queue = <<>>
    /\ Len(execLog) = 1
    /\ execLog[1].req = r
    /\ ~execLog[1].raised

\* C11: for a single CODE request with no other request in flight, whose
\* output passes the gate and whose code executes without raising, once all
\* the sink writes scheduled for it (the worker's progress messages,
\* "Executing Code..." and "Done! Scene updated.") have been applied, the
\* status field shows the success message, and keeps showing it in every
\* later state with no further request; only the user's own clear-history
\* operator, which writes the field directly, puts another text there.
C11_LoneSuccessEndsInDone ==
    \A r \in Reqs :
        (LoneCodeSuccess(r) /\ SinkQuiet /\ ai_status_log # ClearedStatus)
        => ai_status_log = DoneStatus

\* the lone request has succeeded, all its writes are applied and the
\* status shows the success message
C11_Witness ==
    /\ LoneCodeSuccess(1)
    /\ SinkQuiet
    /\ ai_status_log = DoneStatus
    /\ Len(ai_log[1]) = 2
    /\ Len(ai_log[MainThread]) = 2

\* ------------------------------------------- functions evaluated on their own
\* the tokens of the texts given to preprocess_code on its own: one of the
\* two language-tagged fences ("FP" is matched like "FPY"), one statement
\* without the API marker ("IMPC" is treated like "X"), one text that does
\* not parse ("ERR" is treated like "BAD")
Alphabet == {"F", "FPY", "NL", "SP", "TAB", "BPY", "X", "BAD", "IMPS"}

\* every text of at most n tokens
TextsUpTo(n) == UNION {[1..k -> Alphabet] : k \in 0..n}

\* the places of a scene where an object that raises may sit: the first
\* object, the last one inside the cut and the first one outside it
RaisingPlaces == {1, SceneCap, SceneCap + 1}

\* a scene of n objects, those at the places of B raising when formatted
SceneOf(n, B) == [i \in 1..n |-> IF i \in B THEN "RAISES" ELSE "MESH"]

\* scenes from the empty one to MaxExtra objects beyond the cut
LargeScenes ==
    {SceneOf(n, B) : n \in 0..(SceneCap + MaxExtra), B \in SUBSET RaisingPlaces}

\* A model id is a sequence of parts, each a fixed piece of text.
IdParts == {"llama3", "gpt-oss:20b", "deepseek-v3.1:671b", "-cloud", ":latest"}

ModelIds == UNION {[1..k -> IdParts] : k \in 0..MaxIdLen}

\* CLOUD_MODELS
CLOUD_MODELS ==
    { <<"qwen3-coder:480b", "-cloud">>,
      <<"gpt-oss:120b", "-cloud">>,
      <<"gpt-oss:20b", "-cloud">>,
      <<"deepseek-v3.1:671b", "-cloud">> }

\* model_name.endswith('-cloud')
EndsWithCloud(model_name) ==
    model_name # <<>> /\ model_name[Len(model_name)] = "-cloud"

\* a test that knows only the listed ids
is_cloud_modelListOnly(model_name) == model_name \in CLOUD_MODELS

\* is_cloud_model
is_cloud_model(model_name) ==
    model_name \in CLOUD_MODELS \/ EndsWithCloud(model_name)

\* options={'temperature': 0.1, 'num_predict': 2048}
SamplingOptions ==
    <<[name |-> "temperature", value |-> "0.1"], [name |-> "num_predict", value |-> "2048"]>>

\* chat() called without an options argument
NoOptions == <<>>

\* llm_agent's choice of call: the options it hands to chat()
llm_agent_options(option) ==
    IF is_cloud_model(option) THEN SamplingOptions ELSE NoOptions

\* the calls made outside the pipeline: preprocess_code on every short text,
\* describe_scene on scenes around its cut, llm_agent on every short id
PureInputs ==
    {PureCall("preprocess_code", text) : text \in TextsUpTo(MaxLen)}
    \cup {PureCall("describe_scene", objs) : objs \in LargeScenes}
    \cup {PureCall("llm_agent", option) : option \in ModelIds \cup CLOUD_MODELS}

PureInit == PipelineInit /\ pure \in PureInputs

\* clean_code = preprocess_code(text)
GateCall ==
    /\ pure.fn = "preprocess_code"
    /\ pure.pc = "call"
    /\ pure' = [pure EXCEPT !.out = preprocess_code(pure.arg), !.pc = "returned"]
    /\ UNCHANGED pipelineVars

\* preprocess_code applied to its own non-empty result
GateRecall ==
    /\ pure.fn = "preprocess_code"
    /\ pure.pc = "returned"
    /\ pure.out # <<>>
    /\ pure' = [pure EXCEPT !.again = preprocess_code(pure.out), !.pc = "again"]
    /\ UNCHANGED pipelineVars

\* scene_desc = describe_scene()
DescribeCall ==
    /\ pure.fn = "describe_scene"
    /\ pure.pc = "call"
    /\ pure' = [pure EXCEPT !.out = describe_scene(pure.arg), !.pc = "returned"]
    /\ UNCHANGED pipelineVars

\* llm_agent(option, ...) up to its chat() call
LlmAgentCall ==
    /\ pure.fn = "llm_agent"
    /\ pure.pc = "call"
    /\ pure' = [pure EXCEPT !.out = llm_agent_options(pure.arg), !.pc = "returned"]
    /\ UNCHANGED pipelineVars

PureNext ==
    \/ GateCall
    \/ GateRecall
    \/ DescribeCall
    \/ LlmAgentCall

PureSpec == PureInit /\ [][PureNext]_vars

\* ---------------------------------------------------------------- C12
\* the text contains 'bpy.'
MentionsBpy(text) == \E i \in 1..Len(text) : text[i] = "BPY"

\* C12 as stated: for every raw text on which preprocess_code succeeds with
\* result c, running it again on c succeeds and returns c unchanged.
C12_GateIdempotent ==
    (pure.fn = "preprocess_code" /\ pure.pc = "again") => pure.again = pure.out

\* C12, amended: for every raw text on which preprocess_code succeeds with a
\* result c that contains the API marker ('bpy.' or 'import bpy'), running it
\* again on c succeeds and returns c unchanged.
C12_GateIdempotentOnApiCode ==
    (pure.fn = "preprocess_code" /\ pure.pc = "again" /\ MentionsBpy(pure.out))
    => pure.again = pure.out

\* a fenced, indented API call was extracted and normalised, and the second
\* run gave the same code back
C12_Witness ==
    /\ pure.fn = "preprocess_code"
    /\ pure.pc = "again"
    /\ pure.arg = <<"FPY", "NL", "TAB", "BPY">> \o <<"F">>
    /\ pure.out = <<"BPY">>
    /\ pure.again = <<"BPY">>

\* ---------------------------------------------------------------- C13
\* C13: every read of the live scene made for a request (the description and
\* the statistics) happens on the main thread during submission; no worker
\* thread ever reads the host's scene.
C13_SceneReadOnMainThreadOnly == hostReaders \subseteq {MainThread}

\* ---------------------------------------------------------------- C14
\* the statistics of the scene a description was rendered from (the scenes
\* of Spec are non-empty and below the cap, so the description has one line,
\* a type tag, per object)
StatisticsAtSubmission(ctx) == get_scene_statistics(ctx)

\* C14: for a QA request, the statistics the worker puts in its prompt are
\* those of the scene as it was at submission, like the description, even if
\* a drain executed an artifact that changed the scene in between.
C14_QaStatsFromSubmission ==
    \A r \in Reqs :
        (worker[r].mode = "QA" /\ worker[r].pc = "qa_generate")
        => worker[r].stats = StatisticsAtSubmission(worker[r].ctx)

\* ---------------------------------------------------------------- C15
PairInLog(r, log) == \E i \in 1..Len(log) : log[i].question = r

QaInFlight(r) == worker[r].mode = "QA" /\ worker[r].pc # "done"

\* a step of the clear-history operator that has an effect on the log or on
\* the status
ClearStep ==
    \/ conversation_history # <<>> /\ conversation_history' = <<>>
    \/ ai_status_log # ClearedStatus /\ ai_status_log' = ClearedStatus

\* C15 as stated: a QA worker that was in flight when the log was cleared has
\* its {question, answer} pair in the conversation log once it has finished.
C15_PairInLogWhenFinished ==
    [][\A r \in Reqs :
         (worker[r].pc = "qa_log" /\ worker'[r].pc = "done")
         => PairInLog(r, conversation_history')]_vars

\* C15, amended: clearing the log while a QA worker is in flight does not
\* stop that worker: the clear changes no worker and cancels no scheduled
\* write, every worker in flight can always take its next step, and its
\* append and its write to the response sink happen after the clear as they
\* would without it.  Pairs leave the log only by a clear, which empties it:
\* the log holds exactly the pairs appended after the last clear, so the
\* pair of a worker that had already appended when the clear came is absent
\* when that worker finishes.
C15_ClearDoesNotStopWorker ==
    /\ [][ClearStep => /\ worker' = worker
                       /\ timers' = timers
                       /\ execution_queue' = execution_queue
                       /\ conversation_history' = <<>>]_vars
    /\ [](\A r \in Reqs : QaInFlight(r) => ENABLED WorkerStep(r))
    /\ [][\A r \in Reqs :
            /\ (worker[r].pc = "qa_generate" /\ worker'[r].pc = "qa_respond")
               => /\ Len(conversation_history') = Len(conversation_history) + 1
                  /\ PairInLog(r, conversation_history')
            /\ (worker[r].pc = "qa_respond" /\ worker'[r].pc = "qa_log")
               => /\ Len(timers') = Len(timers) + 1
                  /\ timers'[Len(timers')].fn = "update_response.update_ui"]_vars
    /\ [][Len(conversation_history') < Len(conversation_history) => ClearStep]_vars

\* the log was cleared while a QA worker was in flight; the worker went on,
\* appended its pair, its answer reached the response field, and it finished
C15_Witness ==
    \E r \in Reqs :
        /\ worker[r].mode = "QA"
        /\ worker[r].pc = "done"
        /\ ai_status_log = ClearedStatus
        /\ PairInLog(r, conversation_history)
        /\ ai_response # <<>>
        /\ nreq = 1

\* ---------------------------------------------------------------- C16
\* number of object lines of a description
ObjectLines(desc) == IF desc = SceneIsEmpty THEN 0 ELSE Len(desc)

\* number of objects among the first SceneCap whose formatting raises
RaisingInCut(objs) ==
    Cardinality({i \in 1..Len(objs) : i <= SceneCap /\ FormattingRaises(objs[i])})

DescribedLargeScene ==
    /\ pure.fn = "describe_scene"
    /\ pure.pc = "returned"
    /\ Len(pure.arg) > SceneCap

\* C16 as stated: for any scene with more than 50 objects the description
\* contains exactly 50 object lines.
C16_LargeSceneHasFiftyLines ==
    DescribedLargeScene => ObjectLines(pure.out) = SceneCap

\* C16, amended: for any scene with more than 50 objects, only the first 50
\* objects are considered and those whose fields raise during formatting are
\* skipped without being replaced: the description contains 50 object lines
\* minus one for each raising object among the first 50, so exactly 50 when
\* none of them raises.
C16_LargeSceneLinesWithinCut ==
    DescribedLargeScene => ObjectLines(pure.out) = SceneCap - RaisingInCut(pure.arg)

\* a scene of more than 50 objects whose fiftieth object raises: 49 lines
C16_Witness ==
    /\ DescribedLargeScene
    /\ FormattingRaises(pure.arg[SceneCap])
    /\ RaisingInCut(pure.arg) = 1
    /\ ObjectLines(pure.out) = SceneCap - 1

\* ---------------------------------------------------------------- C17
LlmAgentCalled == pure.fn = "llm_agent" /\ pure.pc = "returned"

\* C17: in the local-model strategy, a model id that is in the cloud
\* allow-list or that ends with '-cloud' always makes the call with the
\* explicit sampling options (temperature 0.1, output length 2048); any
\* other id never passes sampling options.
C17_CloudIdsGetSamplingOptions ==
    LlmAgentCalled =>
        LET id     == pure.arg
            listed == id \in CLOUD_MODELS
            suffix == Len(id) > 0 /\ id[Len(id)] = "-cloud"
        IN  IF listed \/ suffix
            THEN pure.out = SamplingOptions
            ELSE pure.out = NoOptions

\* an id outside the allow-list that ends with '-cloud' got the options,
\* an id with '-cloud' in the middle would not
C17_Witness ==
    /\ LlmAgentCalled
    /\ pure.arg = <<"llama3", "-cloud">>
    /\ pure.arg \notin CLOUD_MODELS
    /\ pure.out = SamplingOptions

\* ---------------------------------------------------------------- C18
\* the update_log calls made in a step: the messages newly printed
RECURSIVE NewPrints(_, _, _)
NewPrints(old, new, ts) ==
    IF ts = {} THEN <<>>
    ELSE LET t == CHOOSE x \in ts : \A y \in ts : x <= y
         IN  SubSeq(new[t], Len(old[t]) + 1, Len(new[t]))
             \o NewPrints(old, new, ts \ {t})

StatusCallback(m) == [fn |-> "update_log.update_ui", msg |-> m]

\* a step of a started worker thread, or of the drain callback
WorkerOrDrainStep ==
    \/ \E r \in Reqs : worker[r].pc # "none" /\ worker'[r] # worker[r]
    \/ mainPc # "idle"

\* the step in which the host runs the callback at the head of its list
CallbackRuns == timers # <<>> /\ timers' = Tail(timers)

InitialStatus(mode) ==
    IF mode = "CODE" THEN Msg("Reading scene...", <<>>) ELSE Msg("Analyzing scene...", <<>>)

\* the first instruction of a worker thread
FirstStep(mode) == IF mode = "CODE" THEN "code_start" ELSE "qa_start"

Started(r) == worker[r].pc # "none"

\* C19: for every accepted request (non-empty text) the scene description
\* is captured from the scene as it is and the initial status is set, on the
\* main thread, in the operator that starts the worker, so before the
\* worker's first step; exactly one worker is started for the request; and
\* the operator returns with that worker still at its first instruction,
\* the main thread free again and nothing of the worker's done yet.
C19_SubmissionOrdering ==
    /\ [][\A r \in Reqs :
            (~Started(r) /\ worker'[r].pc # "none")
            => /\ mainPc = "idle" /\ mainPc' = "idle"
               /\ r = nreq + 1 /\ nreq' = nreq + 1
               /\ \A q \in Reqs \ {r} : worker'[q] = worker[q]
               /\ worker'[r].mode \in {"CODE", "QA"}
               /\ worker'[r].pc = FirstStep(worker'[r].mode)
               /\ worker'[r].ctx = describe_scene(scene)
               /\ ai_status_log' = InitialStatus(worker'[r].mode)
               /\ MainThread \in hostReaders'
               /\ timers' = timers
               /\ ai_log' = ai_log
               /\ conversation_history' = conversation_history
               /\ execution_queue' = execution_queue]_vars
    /\ [][\A r \in Reqs :
            (Started(r) /\ worker'[r].pc # "done") => worker'[r].ctx = worker[r].ctx]_vars
    /\ [](\A r \in Reqs : Started(r) <=> r <= nreq)

\* two requests were accepted one after the other while neither worker has
\* taken a step: the second submit did not wait for the first worker
C19_Witness ==
    /\ nreq = 2
    /\ worker[1].pc = "code_start"
    /\ worker[2].pc = "qa_start"
    /\ worker[1].ctx = describe_scene(scene)
    /\ worker[2].ctx = describe_scene(scene)
    /\ ai_status_log = InitialStatus("QA")
    /\ timers = <<>>

\* ---------------------------------------------------------------- C20
\* the drain callback's loop test finds the queue empty
DrainFindsQueueEmpty == mainPc = "drain" /\ execution_queue = <<>>

\* C20: the drain callback is idempotent and never re-arms itself.  When its
\* loop test finds the queue empty - at once, for a callback invoked on an
\* empty queue, or after the last artifact of a non-empty drain - it
\* executes nothing, schedules no status write, leaves queue, scene and
\* conversation log unchanged and returns None: the host takes it off its
\* timer list and it is not registered again.  Only a CODE worker's
\* register call ever adds a drain callback.
C20_DrainReturnsWithoutRearming ==
    /\ [][(DrainFindsQueueEmpty /\ mainPc' # mainPc)
          => /\ mainPc' = "idle"
             /\ timers' = timers
             /\ execution_queue' = <<>>
             /\ scene' = scene
             /\ execLog' = execLog
             /\ ai_log' = ai_log
             /\ conversation_history' = conversation_history
             /\ ai_status_log' = ai_status_log
             /\ ai_response' = ai_response]_vars
    /\ [][(mainPc = "idle" /\ mainPc' = "drain")
          => /\ timers' = Tail(timers)
             /\ DrainTimers(timers') = DrainTimers(timers) - 1
             /\ execution_queue' = execution_queue
             /\ scene' = scene
             /\ execLog' = execLog]_vars
    /\ [][DrainTimers(timers') > DrainTimers(timers)
          => \E r \in Reqs : /\ worker[r].pc = "code_register"
                             /\ worker'[r].pc = "done"]_vars

\* two callbacks were armed; the first drained both artifacts, the second
\* found the queue empty, did nothing and is gone
C20_Witness ==
    /\ drainInv = 2
    /\ mainPc = "idle"
    /\ Len(execLog) = 2
    /\ execLog[1].inv = 1
    /\ execLog[2].inv = 1
    /\ Len(ai_log[MainThread]) = 4
    /\ execution_queue = <<>>
    /\ DrainTimers(timers) = 0

\* ---------------------------------------------------------------- C21
\* a drain callback is registered and has not run yet
DrainArmed == DrainTimers(timers) >= 1

\* process_queue_timer has been called and has not returned
DrainInProgress == mainPc \in {"drain", "exec"}

\* a CODE worker is between its put and its register call
BetweenPutAndRegister(r) == worker[r].mode = "CODE" /\ worker[r].pc = "code_register"

\* C21: no artifact is ever stranded in the queue: whenever the execution
\* queue is non-empty, a drain callback is registered and not yet run, or a
\* drain invocation is in progress, or some CODE worker has done its put and
\* not yet its registration of the drain callback.
C21_NoArtifactStranded ==
    execution_queue # <<>>
    => \/ DrainArmed
       \/ DrainInProgress
       \/ \E r \in Reqs : BetweenPutAndRegister(r)

\* an artifact waits in the queue with no callback armed and no drain
\* running: only its worker, which has yet to register, stands for it
C21_Witness ==
    /\ execution_queue # <<>>
    /\ ~DrainArmed
    /\ ~DrainInProgress
    /\ \E r \in Reqs : BetweenPutAndRegister(r) /\ InQueue(r)

=============================================================================
